---- MODULE Spec2Model ----
(***************************************************************************)
(* Model of the CarLink CLI library (src/CLI.h, src/CLI.cpp).              *)
(*                                                                         *)
(* A std::string is a TLA+ string; a std::vector<std::string> is a         *)
(* sequence of strings whose C++ index k is the TLA+ index k + 1.          *)
(* A ParamNode is a record                                                 *)
(*   [candidates, children, numeric |-> [enabled, minValue, maxValue]]     *)
(* whose children field is a function from the keys of the std::map to     *)
(* ParamNodes.  A long that strtol produced is a record [neg, mag]: a sign *)
(* and the decimal digits of the magnitude, so that the whole 64-bit range *)
(* of the type is representable.                                           *)
(***************************************************************************)
EXTENDS Integers, Sequences, FiniteSets, TLC

VARIABLES
    \* TreeBuilder and makeTreeParamMap
    root_, rootPtr, call,
    \* CLI: the registry and the flags
    commands_, running_, commandRunning_,
    \* CLI::run: where the controlling thread is, and the command line it holds
    pc, mode, tokens,
    \* CLI::invokeCommand: the locals shared with the worker, and the worker
    finished, workerException, worker,
    \* the input channel (STDIN_FILENO)
    stdin,
    \* what commandCompletion returned
    completion,
    \* history: the registerCommand calls made, and what happened to the
    \* command line in hand
    regLog, stat

treeVars == <<root_, rootPtr, call>>

shellVars == <<commands_, running_, commandRunning_, pc, mode, tokens,
               finished, workerException, worker, stdin, completion, regLog, stat>>

vars == <<treeVars, shellVars>>

(***************************************************************************)
(* Bounds of the model.                                                    *)
(***************************************************************************)
\* positional arguments of a validated command line (args[1..])
MaxArgs == 3
\* positional arguments of a command line in the numeric-format runs
MaxNumArgs == 2
\* largest paramIndex handed to the completer
MaxParamIndex == 3

\* registerCommand calls after construction
MaxRegs == 2

\* bytes typed and not yet read
MaxPending == 2

(***************************************************************************)
(* Characters and strings.                                                 *)
(***************************************************************************)
\* the printable ASCII characters in code order: 0x20..0x5B and 0x61..0x7E
AsciiLow ==
    " !" \o "\"" \o "#$%&'(" \o ")" \o "*+,-./0123456789:;<=>?@"
    \o "ABCDEFGHIJKLMNOPQRSTUVWXYZ["
AsciiHigh == "abcdefghijklmnopqrstuvwxyz{|}~"

\* the value of a char as unsigned char (tab, newline, form feed and return
\* are the control characters a token of the model may hold)
CharCode(c) ==
    IF c = "\t" THEN 9
    ELSE IF c = "\n" THEN 10
    ELSE IF c = "\f" THEN 12
    ELSE IF c = "\r" THEN 13
    ELSE IF \E k \in 1..Len(AsciiLow) : SubSeq(AsciiLow, k, k) = c
         THEN 31 + (CHOOSE k \in 1..Len(AsciiLow) : SubSeq(AsciiLow, k, k) = c)
    ELSE 96 + (CHOOSE k \in 1..Len(AsciiHigh) : SubSeq(AsciiHigh, k, k) = c)

\* std::string operator< : lexicographic on the bytes; std::map's key order
RECURSIVE StrLess(_, _)
StrLess(a, b) ==
    IF Len(b) = 0 THEN FALSE
    ELSE IF Len(a) = 0 THEN TRUE
    ELSE IF Head(a) = Head(b) THEN StrLess(Tail(a), Tail(b))
    ELSE CharCode(Head(a)) < CharCode(Head(b))

\* candidate.find(input) != npos : input occurs in candidate anywhere
FindAnywhere(candidate, input) ==
    \E k \in 0..(Len(candidate) - Len(input)) :
        SubSeq(candidate, k + 1, k + Len(input)) = input

\* candidate.find(input) == 0 : input occurs in candidate at offset 0
FindAtZero(candidate, input) ==
    /\ Len(input) <= Len(candidate)
    /\ SubSeq(candidate, 1, Len(input)) = input

isdigit(c) == c \in {"0", "1", "2", "3", "4", "5", "6", "7", "8", "9"}

\* isspace in the C locale: space, \t, \n, \v, \f, \r (the vertical tab,
\* which has no TLA+ escape, is written as the character 0x0B itself)
isspace(c) == c \in {" ", "\t", "\n", "", "\f", "\r"}

DigitChar(d) == SubSeq("0123456789", d + 1, d + 1)

\* the decimal digits of a natural number
RECURSIVE DecDigits(_)
DecDigits(n) == IF n < 10 THEN DigitChar(n) ELSE DecDigits(n \div 10) \o DigitChar(n % 10)

\* std::to_string of an integer
to_string(n) == IF n < 0 THEN "-" \o DecDigits(0 - n) ELSE DecDigits(n)

(***************************************************************************)
(* long arithmetic on decimal magnitudes.                                  *)
(***************************************************************************)
\* LONG_MAX and -LONG_MIN of the 64-bit long of the build
LongMaxMag == "9223372036854775807"
LongMinMag == "9223372036854775808"

RECURSIVE StripZeros(_)
StripZeros(m) ==
    IF Len(m) > 1 /\ Head(m) = "0" THEN StripZeros(Tail(m)) ELSE m

\* a < b for two magnitudes without leading zeros
MagLess(a, b) ==
    \/ Len(a) < Len(b)
    \/ Len(a) = Len(b) /\ StrLess(a, b)

\* a < b for two longs
LongLess(a, b) ==
    IF a.neg /\ ~b.neg THEN TRUE
    ELSE IF ~a.neg /\ b.neg THEN FALSE
    ELSE IF a.neg THEN MagLess(b.mag, a.mag)
    ELSE MagLess(a.mag, b.mag)

\* the long with the value of a model integer
LongOf(n) == [neg |-> n < 0, mag |-> DecDigits(IF n < 0 THEN 0 - n ELSE n)]

\* the number of leading isspace characters of s
RECURSIVE SpaceSpan(_)
SpaceSpan(s) ==
    IF Len(s) > 0 /\ isspace(Head(s)) THEN 1 + SpaceSpan(Tail(s)) ELSE 0

\* the number of leading decimal digits of s
RECURSIVE DigitSpan(_)
DigitSpan(s) ==
    IF Len(s) > 0 /\ isdigit(Head(s)) THEN 1 + DigitSpan(Tail(s)) ELSE 0

\* std::strtol(value.c_str(), &end, 10) with errno cleared before the call:
\* white space is skipped, then an optional sign, then the longest run of
\* digits is converted.  noconv: end == value.c_str() (no digits, end is set
\* back to the start); atEnd: *end is the terminating NUL; erange: errno is
\* ERANGE (the magnitude does not fit the long); value: the converted long.
strtol(value) ==
    LET skip   == SpaceSpan(value)
        s1     == SubSeq(value, skip + 1, Len(value))
        signed == Len(s1) > 0 /\ Head(s1) \in {"+", "-"}
        neg    == Len(s1) > 0 /\ Head(s1) = "-"
        s2     == IF signed THEN Tail(s1) ELSE s1
        n      == DigitSpan(s2)
        mag    == StripZeros(SubSeq(s2, 1, n))
        limit  == IF neg THEN LongMinMag ELSE LongMaxMag
    IN  IF n = 0
        THEN [noconv |-> TRUE, atEnd |-> Len(value) = 0, erange |-> FALSE,
              value |-> [neg |-> FALSE, mag |-> "0"]]
        ELSE [noconv |-> FALSE,
              atEnd  |-> n = Len(s2),
              erange |-> MagLess(limit, mag),
              value  |-> IF MagLess(limit, mag)
                         THEN [neg |-> neg, mag |-> limit]
                         ELSE [neg |-> neg /\ mag # "0", mag |-> mag]]

\* parseLong without the errno test: an overflowing token parses as the
\* saturated long
parseLong_NoErrno(value) ==
    IF Len(value) = 0 THEN [ok |-> FALSE, value |-> LongOf(0)]
    ELSE LET r == strtol(value)
         IN  IF r.noconv \/ ~r.atEnd
             THEN [ok |-> FALSE, value |-> LongOf(0)]
             ELSE [ok |-> TRUE, value |-> r.value]

\* the validator's parseLong lambda: ok is its return value, value is what it
\* stores through outValue
parseLong(value) ==
    IF Len(value) = 0 THEN [ok |-> FALSE, value |-> LongOf(0)]
    ELSE LET r == strtol(value)
         IN  IF r.erange \/ r.noconv \/ ~r.atEnd
             THEN [ok |-> FALSE, value |-> LongOf(0)]
             ELSE [ok |-> TRUE, value |-> r.value]

(***************************************************************************)
(* ParamNode and TreeBuilder.                                              *)
(***************************************************************************)
NoChildren == [k \in {} |-> 0]

\* a default-constructed ParamNode
EmptyNode ==
    [candidates |-> <<>>,
     children   |-> NoChildren,
     numeric    |-> [enabled |-> FALSE, minValue |-> 0, maxValue |-> 0]]

HasChild(n, key) == key \in DOMAIN n.children

\* the node children[key] refers to: std::map::operator[] inserts a
\* default-constructed node when the key is absent
ChildAt(n, key) == IF HasChild(n, key) THEN n.children[key] ELSE EmptyNode

\* the node at the end of path, walking (and creating) with children[key]
RECURSIVE NodeAt(_, _)
NodeAt(n, path) ==
    IF path = <<>> THEN n ELSE NodeAt(ChildAt(n, Head(path)), Tail(path))

\* the tree after the walk along path, with the node at its end replaced
RECURSIVE WithNodeAt(_, _, _)
WithNodeAt(n, path, new) ==
    IF path = <<>> THEN new
    ELSE [n EXCEPT !.children =
            [k \in DOMAIN n.children \cup {Head(path)} |->
                IF k = Head(path)
                THEN WithNodeAt(ChildAt(n, k), Tail(path), new)
                ELSE n.children[k]]]

\* TreeBuilder::root
BuilderRoot(tree, candidates) == [tree EXCEPT !.candidates = candidates]

\* TreeBuilder::node
BuilderNode(tree, path, candidates) ==
    WithNodeAt(tree, path, [NodeAt(tree, path) EXCEPT !.candidates = candidates])

\* TreeBuilder::numeric
BuilderNumeric(tree, path, minValue, maxValue) ==
    WithNodeAt(tree, path,
        [NodeAt(tree, path) EXCEPT
            !.candidates = <<>>,
            !.numeric = [enabled |-> TRUE, minValue |-> minValue, maxValue |-> maxValue]])

\* the keys of a std::map in iteration order (ascending)
RECURSIVE SortedKeys(_)
SortedKeys(keys) ==
    IF keys = {} THEN <<>>
    ELSE LET least == CHOOSE k \in keys : \A o \in keys \ {k} : StrLess(k, o)
         IN  <<least>> \o SortedKeys(keys \ {least})

\* the strings of a list joined with ", " (the validValues / currentOptions /
\* nextOptions loops; an empty accumulator gets no separator)
RECURSIVE JoinFrom(_, _)
JoinFrom(acc, list) ==
    IF list = <<>> THEN acc
    ELSE JoinFrom((IF Len(acc) # 0 THEN acc \o ", " ELSE acc) \o Head(list), Tail(list))

Join(list) == JoinFrom("", list)

(***************************************************************************)
(* makeTreeParamMap: the validator lambda.                                 *)
(***************************************************************************)
Arg(args, i) == args[i + 1]

InCandidates(n, value) == \E k \in 1..Len(n.candidates) : n.candidates[k] = value

\* the locals of the validator at the top of the for loop; returned/out hold
\* a return taken inside the loop, broke a break out of it
ScanStart(tree) ==
    [current |-> tree, lastValueIsLeaf |-> FALSE,
     returned |-> FALSE, out |-> "", broke |-> FALSE]

Return(st, msg) == [st EXCEPT !.returned = TRUE, !.out = msg]

\* the numeric branch reporting the position from zero
NumericBranch_ZeroBased(st, args, i) ==
    LET value   == Arg(args, i)
        current == st.current
        parsed  == parseLong(value)
    IN  IF current.numeric.enabled /\ ~parsed.ok
        THEN Return(st, "Invalid number '" \o value \o "' at position " \o to_string(i - 1))
        ELSE IF /\ current.numeric.enabled
                /\ \/ LongLess(parsed.value, LongOf(current.numeric.minValue))
                   \/ LongLess(LongOf(current.numeric.maxValue), parsed.value)
        THEN Return(st, "Number out of range at position " \o to_string(i - 1)
                        \o ". Expected: " \o to_string(current.numeric.minValue)
                        \o " to " \o to_string(current.numeric.maxValue))
        ELSE IF DOMAIN current.children # {} /\ HasChild(current, value)
        THEN [st EXCEPT !.current = current.children[value]]
        ELSE [st EXCEPT !.lastValueIsLeaf = TRUE]

\* the branch of the loop body for a node with no candidates
NumericBranch(st, args, i) ==
    LET value   == Arg(args, i)
        current == st.current
        parsed  == parseLong(value)
        leaf    == [st EXCEPT !.lastValueIsLeaf = TRUE]
    IN  IF current.numeric.enabled /\ ~parsed.ok
        THEN Return(st, "Invalid number '" \o value \o "' at position " \o to_string(i))
        ELSE IF /\ current.numeric.enabled
                /\ \/ LongLess(parsed.value, LongOf(current.numeric.minValue))
                   \/ LongLess(LongOf(current.numeric.maxValue), parsed.value)
        THEN Return(st, "Number out of range at position " \o to_string(i)
                        \o ". Expected: " \o to_string(current.numeric.minValue)
                        \o " to " \o to_string(current.numeric.maxValue))
        ELSE IF DOMAIN current.children # {} /\ HasChild(current, value)
        THEN [st EXCEPT !.current = current.children[value]]
        ELSE leaf

\* the candidate branch with the leaf test i < args.size(): a leaf in last
\* place is refused too
CandidateBranch_OffByOne(st, args, i) ==
    LET value   == Arg(args, i)
        current == st.current
    IN  IF ~InCandidates(current, value)
        THEN Return(st, "Invalid value '" \o value \o "' at position " \o to_string(i)
                        \o ". Valid values: " \o Join(current.candidates))
        ELSE IF HasChild(current, value)
        THEN [st EXCEPT !.current = current.children[value], !.lastValueIsLeaf = FALSE]
        ELSE IF i < Len(args)
        THEN Return([st EXCEPT !.lastValueIsLeaf = TRUE],
                    "Too many arguments after '" \o value \o "'")
        ELSE [st EXCEPT !.lastValueIsLeaf = TRUE, !.broke = TRUE]

\* the candidate branch listing the valid values in key order
CandidateBranch_KeyOrder(st, args, i) ==
    LET value   == Arg(args, i)
        current == st.current
        values  == {current.candidates[k] : k \in 1..Len(current.candidates)}
    IN  IF ~InCandidates(current, value)
        THEN Return(st, "Invalid value '" \o value \o "' at position " \o to_string(i)
                        \o ". Valid values: " \o Join(SortedKeys(values)))
        ELSE IF HasChild(current, value)
        THEN [st EXCEPT !.current = current.children[value], !.lastValueIsLeaf = FALSE]
        ELSE IF i < Len(args) - 1
        THEN Return([st EXCEPT !.lastValueIsLeaf = TRUE],
                    "Too many arguments after '" \o value \o "'")
        ELSE [st EXCEPT !.lastValueIsLeaf = TRUE, !.broke = TRUE]

\* the candidate branch treating a leaf as the numeric branch does: the loop
\* goes on at the same node
CandidateBranch_LeafContinues(st, args, i) ==
    LET value   == Arg(args, i)
        current == st.current
    IN  IF ~InCandidates(current, value)
        THEN Return(st, "Invalid value '" \o value \o "' at position " \o to_string(i)
                        \o ". Valid values: " \o Join(current.candidates))
        ELSE IF HasChild(current, value)
        THEN [st EXCEPT !.current = current.children[value], !.lastValueIsLeaf = FALSE]
        ELSE [st EXCEPT !.lastValueIsLeaf = TRUE]

\* the branch of the loop body for a node with candidates
CandidateBranch(st, args, i) ==
    LET value   == Arg(args, i)
        current == st.current
    IN  IF ~InCandidates(current, value)
        THEN Return(st, "Invalid value '" \o value \o "' at position " \o to_string(i)
                        \o ". Valid values: " \o Join(current.candidates))
        ELSE IF HasChild(current, value)
        THEN [st EXCEPT !.current = current.children[value], !.lastValueIsLeaf = FALSE]
        ELSE IF i < Len(args) - 1
        THEN Return([st EXCEPT !.lastValueIsLeaf = TRUE],
                    "Too many arguments after '" \o value \o "'")
        ELSE [st EXCEPT !.lastValueIsLeaf = TRUE, !.broke = TRUE]

\* one iteration of the for loop, for index i
LoopBody(st, args, i) ==
    LET top == [st EXCEPT !.lastValueIsLeaf = FALSE]
    IN  IF top.current.candidates = <<>>
        THEN NumericBranch(top, args, i)
        ELSE CandidateBranch(top, args, i)

\* the for loop from index i, stopped before index stop (the validator runs
\* it with stop = args.size())
RECURSIVE ScanLoop(_, _, _, _)
ScanLoop(st, args, i, stop) ==
    IF i >= stop \/ st.returned \/ st.broke THEN st
    ELSE ScanLoop(LoopBody(st, args, i), args, i + 1, stop)

\* the code after the loop asking for the child keys before the candidates
AfterLoop_ChildrenFirst(st) ==
    LET current == st.current
    IN  IF st.lastValueIsLeaf THEN ""
        ELSE IF DOMAIN current.children # {}
        THEN "Missing argument. Expected: " \o Join(SortedKeys(DOMAIN current.children))
        ELSE IF current.candidates # <<>>
        THEN "Missing argument. Expected one of: " \o Join(current.candidates)
        ELSE ""

\* a variant that asks for the number when the scan stops on a numeric node
AfterLoop_NumberRequired(st) ==
    LET current == st.current
    IN  IF st.lastValueIsLeaf THEN ""
        ELSE IF current.candidates # <<>>
        THEN "Missing argument. Expected one of: " \o Join(current.candidates)
        ELSE IF DOMAIN current.children # {}
        THEN "Missing argument. Expected: " \o Join(SortedKeys(DOMAIN current.children))
        ELSE IF current.numeric.enabled
        THEN "Missing argument. Expected a number"
        ELSE ""

\* the code after the loop
AfterLoop(st) ==
    LET current == st.current
    IN  IF st.lastValueIsLeaf THEN ""
        ELSE IF current.candidates # <<>>
        THEN "Missing argument. Expected one of: " \o Join(current.candidates)
        ELSE IF DOMAIN current.children # {}
        THEN "Missing argument. Expected: " \o Join(SortedKeys(DOMAIN current.children))
        ELSE ""

\* the validator lambda over the tree rootPtr holds
validator(tree, args) ==
    IF Len(args) < 2 THEN "Missing arguments"
    ELSE LET st == ScanLoop(ScanStart(tree), args, 1, Len(args))
         IN  IF st.returned THEN st.out ELSE AfterLoop(st)

(***************************************************************************)
(* makeTreeParamMap: the completer lambda.                                 *)
(***************************************************************************)
\* the walk staying at its node on a token that is no child key
RECURSIVE CompleterWalk_SkipsUnknown(_, _, _, _)
CompleterWalk_SkipsUnknown(current, allTokens, i, paramIndex) ==
    IF i >= paramIndex THEN [found |-> TRUE, node |-> current]
    ELSE IF i >= Len(allTokens) THEN [found |-> FALSE, node |-> current]
    ELSE IF ~HasChild(current, Arg(allTokens, i))
    THEN CompleterWalk_SkipsUnknown(current, allTokens, i + 1, paramIndex)
    ELSE CompleterWalk_SkipsUnknown(current.children[Arg(allTokens, i)], allTokens,
                                    i + 1, paramIndex)

\* the loop that walks to the node being completed, from index i; found is
\* FALSE when the loop returned {} (a token is missing or is no child key)
RECURSIVE CompleterWalk(_, _, _, _)
CompleterWalk(current, allTokens, i, paramIndex) ==
    IF i >= paramIndex THEN [found |-> TRUE, node |-> current]
    ELSE IF i >= Len(allTokens) THEN [found |-> FALSE, node |-> current]
    ELSE IF ~HasChild(current, Arg(allTokens, i)) THEN [found |-> FALSE, node |-> current]
    ELSE CompleterWalk(current.children[Arg(allTokens, i)], allTokens, i + 1, paramIndex)

\* the candidates that input is a prefix of, in declaration order
RECURSIVE Matches(_, _)
Matches(candidates, input) ==
    IF candidates = <<>> THEN <<>>
    ELSE (IF FindAtZero(Head(candidates), input) THEN <<Head(candidates)>> ELSE <<>>)
         \o Matches(Tail(candidates), input)

\* the completer lambda over the tree rootPtr holds
completer(tree, allTokens, paramIndex, input) ==
    IF paramIndex < 1 THEN <<>>
    ELSE LET w == CompleterWalk(tree, allTokens, 1, paramIndex)
         IN  IF ~w.found THEN <<>> ELSE Matches(w.node.candidates, input)

(***************************************************************************)
(* The inputs of the model.                                                *)
(***************************************************************************)
\* all sequences over S of length at most n
RECURSIVE SeqsUpTo(_, _)
SeqsUpTo(S, n) ==
    IF n = 0 THEN {<<>>}
    ELSE LET shorter == SeqsUpTo(S, n - 1)
         IN  shorter \cup {Append(q, x) : q \in shorter, x \in S}

\* candidate lists a declaration may give; the second is not in key order
CandLists == {<<"a", "b">>, <<"t", "ab", "a">>}

\* the (path, candidates) pairs of TreeBuilder::node calls
NodeDecls ==
    {<<p, c>> : p \in {<<"a">>}, c \in CandLists}
        \cup {<< <<"a", "b">>, <<"a", "b">> >>,
              << <<"a", "a">>, <<"t", "ab", "a">> >>,
              << <<"t", "5">>, <<"a", "b">> >>}

\* paths of TreeBuilder::numeric calls
NumericPaths == {<<>>, <<"t">>}

\* (minValue, maxValue) pairs of TreeBuilder::numeric calls
Ranges == {<<1, 600>>}

\* argument tokens of validated command lines
Tokens == {"a", "b", "t", "5", "700"}

\* args of a validator call: nothing, or the command name and its arguments
ArgLists == {<<>>} \cup {<<"set">> \o q : q \in SeqsUpTo(Tokens, MaxArgs)}

\* the numeric-format runs: ranges (one with minValue > maxValue), and tokens
\* in every format strtol distinguishes
NumRanges == {<<1, 600>>, <<-5, 5>>, <<7, 3>>}
NumTokens ==
    {"t", "5", "700", "-5", "-6", "+5", "+700", "007", "-0",
     "", "-", " 5", "\t5", "5 ", "5x", "x5",
     "9223372036854775807", "9223372036854775808",
     "-9223372036854775808", "-9223372036854775809",
     "00000000000000000000005"}
NumArgLists == {<<"set">> \o q : q \in SeqsUpTo(NumTokens, MaxNumArgs)}

\* completer calls
CompleterTokens == {"a", "b", "t"}
TokenLists == {<<>>} \cup {<<"set">> \o q : q \in SeqsUpTo(CompleterTokens, MaxParamIndex - 1)}
Inputs == {"", "a", "ab", "b", "x"}

(***************************************************************************)
(* The state machine: a tree is declared through a TreeBuilder, handed to  *)
(* makeTreeParamMap, and the validator or the completer it returns is      *)
(* called.  call records that call and what it returned.                   *)
(***************************************************************************)
(***************************************************************************)
(* CLI: tokens, the registry, construction.                                *)
(***************************************************************************)
\* the number of leading characters of s that are not white space
RECURSIVE WordSpan(_)
WordSpan(s) ==
    IF Len(s) > 0 /\ ~isspace(Head(s)) THEN 1 + WordSpan(Tail(s)) ELSE 0

\* CLI::parseCommandLine: the white-space delimited words of line
RECURSIVE parseCommandLine(_)
parseCommandLine(line) ==
    LET rest == SubSeq(line, SpaceSpan(line) + 1, Len(line))
        n    == WordSpan(rest)
    IN  IF Len(rest) = 0 THEN <<>>
        ELSE <<SubSeq(rest, 1, n)>> \o parseCommandLine(SubSeq(rest, n + 1, Len(rest)))

\* a TreeCompleter or ParamValidator that holds nothing (nullptr)
NoFunction == [set |-> FALSE, node |-> EmptyNode]

\* the completer or validator makeTreeParamMap returns for a tree
FunctionOver(tree) == [set |-> TRUE, node |-> tree]

CommandInfo(description, handler, completerFn, validatorFn) ==
    [description |-> description, handler |-> handler,
     completer |-> completerFn, validator |-> validatorFn]

\* registerCommand with std::map::insert, which keeps an entry that exists
registerCommand_KeepsFirst(cmds, name, description, handler, completerFn, validatorFn) ==
    [k \in DOMAIN cmds \cup {name} |->
        IF k \in DOMAIN cmds THEN cmds[k]
        ELSE CommandInfo(description, handler, completerFn, validatorFn)]

\* CLI::registerCommand: commands_[name] = info
registerCommand(cmds, name, description, handler, completerFn, validatorFn) ==
    [k \in DOMAIN cmds \cup {name} |->
        IF k = name THEN CommandInfo(description, handler, completerFn, validatorFn)
        ELSE cmds[k]]

\* the registerCommand calls of the constructor, in order
BuiltinCalls ==
    << [name |-> "help",  description |-> "Show available commands",
        handler |-> "cmdHelp", completer |-> NoFunction, validator |-> NoFunction],
       [name |-> "exit",  description |-> "Exit the CLI",
        handler |-> "cmdExit", completer |-> NoFunction, validator |-> NoFunction],
       [name |-> "quit",  description |-> "Exit the CLI (alias for exit)",
        handler |-> "cmdExit", completer |-> NoFunction, validator |-> NoFunction],
       [name |-> "clear", description |-> "Clear the screen",
        handler |-> "cmdClear", completer |-> NoFunction, validator |-> NoFunction] >>

\* commands_ after the registerCommand calls of a list, made in order
RECURSIVE RegisterAll(_, _)
RegisterAll(cmds, calls) ==
    IF calls = <<>> THEN cmds
    ELSE LET c == Head(calls)
         IN  RegisterAll(registerCommand(cmds, c.name, c.description, c.handler,
                                         c.completer, c.validator),
                         Tail(calls))

NoCommands == [k \in {} |-> 0]

(***************************************************************************)
(* CLI::commandCompletion and CLI::commandGenerator.                       *)
(***************************************************************************)
\* the j loop without the comparison prefix[j] == candidates[i][j]
CommonSpan_NoCompare(prefix, candidate) ==
    IF Len(prefix) < Len(candidate) THEN Len(prefix) ELSE Len(candidate)

\* the j the while loop stops at: the number of leading characters prefix
\* and candidate have in common
RECURSIVE CommonSpan(_, _)
CommonSpan(prefix, candidate) ==
    IF Len(prefix) > 0 /\ Len(candidate) > 0 /\ Head(prefix) = Head(candidate)
    THEN 1 + CommonSpan(Tail(prefix), Tail(candidate))
    ELSE 0

\* the for loop from index i on: prefix = prefix.substr(0, j)
RECURSIVE ShortenFrom(_, _, _)
ShortenFrom(prefix, candidates, i) ==
    IF i >= Len(candidates) THEN prefix
    ELSE ShortenFrom(SubSeq(prefix, 1, CommonSpan(prefix, candidates[i + 1])),
                     candidates, i + 1)

\* the prefix commandCompletion puts in completions[0]
SharedPrefix(candidates) ==
    IF Len(candidates) = 1 THEN candidates[1]
    ELSE IF Len(candidates) > 1 THEN ShortenFrom(candidates[1], candidates, 1)
    ELSE ""

\* the matches commandGenerator hands out one by one: the registered names,
\* in key order, that text is a prefix of
commandGenerator(cmds, text) == Matches(SortedKeys(DOMAIN cmds), text)

NoCompletion == [kind |-> "nullptr"]

\* CLI::commandCompletion(text, start, end) with line in rl_line_buffer
commandCompletion(cmds, line, text, start) ==
    IF start = 0 THEN [kind |-> "names", matches |-> commandGenerator(cmds, text)]
    ELSE LET sum     == start + Len(text)
             max_pos == IF sum < Len(line) THEN sum ELSE Len(line)
             toks    == parseCommandLine(SubSeq(line, 1, max_pos))
         IN  IF toks = <<>> THEN NoCompletion
             ELSE IF toks[1] \notin DOMAIN cmds THEN NoCompletion
             ELSE IF ~cmds[toks[1]].completer.set THEN NoCompletion
             ELSE LET paramIndex == IF Len(text) = 0 THEN Len(toks) ELSE Len(toks) - 1
                      candidates == completer(cmds[toks[1]].completer.node, toks,
                                              paramIndex, text)
                  IN  IF candidates = <<>> THEN NoCompletion
                      ELSE [kind |-> "arguments", prefix |-> SharedPrefix(candidates),
                            candidates |-> candidates]

NoCall ==
    [op |-> "none", args |-> <<>>, paramIndex |-> 0, input |-> "",
     ret |-> "", matches |-> <<>>]

\* nothing has happened yet to the command line in hand
NoStat ==
    [unknown |-> FALSE, error |-> "", validated |-> 0, handlerCalls |-> 0,
     invoked |-> "", workers |-> 0, cancelRead |-> FALSE,
     cancelArrived |-> FALSE, finishedFirst |-> FALSE, sawFinished |-> FALSE,
     interrupted |-> FALSE, hinted |-> FALSE, outcomes |-> <<>>, exitCode |-> -1]

\* the input channel: the bytes written and not yet read, and whether the
\* writing end is closed
NoInput == [pending |-> <<>>, closed |-> FALSE]

\* commandRunning_ as the CLI object is constructed
CommandRunningInitially == FALSE

\* the CLI object after CLI::CLI()
ShellInit ==
    /\ commands_ = RegisterAll(NoCommands, BuiltinCalls)
    /\ regLog = BuiltinCalls
    /\ running_ = TRUE
    /\ commandRunning_ = CommandRunningInitially
    /\ pc = "start"
    /\ mode = "none"
    /\ tokens = <<>>
    /\ finished = FALSE
    /\ workerException = "none"
    /\ worker = "none"
    /\ stdin = NoInput
    /\ completion = NoCompletion
    /\ stat = NoStat

Init ==
    /\ root_ = EmptyNode
    /\ rootPtr = [set |-> FALSE, node |-> EmptyNode]
    /\ call = NoCall
    /\ ShellInit

\* the tree is declared before it is handed to makeTreeParamMap
CanDeclare == ~rootPtr.set

\* TreeBuilder(root_).root(candidates)
DeclareRoot(candidates) ==
    /\ CanDeclare
    /\ root_' = BuilderRoot(root_, candidates)
    /\ UNCHANGED <<rootPtr, call, shellVars>>

\* TreeBuilder(root_).node(path, candidates)
DeclareNode(path, candidates) ==
    /\ CanDeclare
    /\ root_' = BuilderNode(root_, path, candidates)
    /\ UNCHANGED <<rootPtr, call, shellVars>>

\* TreeBuilder(root_).numeric(path, minValue, maxValue)
DeclareNumeric(path, minValue, maxValue) ==
    /\ CanDeclare
    /\ root_' = BuilderNumeric(root_, path, minValue, maxValue)
    /\ UNCHANGED <<rootPtr, call, shellVars>>

\* makeTreeParamMap(root_): rootPtr is a copy of the tree
makeTreeParamMap ==
    /\ ~rootPtr.set
    /\ rootPtr' = [set |-> TRUE, node |-> root_]
    /\ UNCHANGED <<root_, call, shellVars>>

\* validator(args), for one of the given argument lists
CallValidator(argLists) ==
    /\ rootPtr.set
    /\ call.op = "none"
    /\ \E args \in argLists :
          call' = [NoCall EXCEPT !.op = "validate", !.args = args,
                                !.ret = validator(rootPtr.node, args)]
    /\ UNCHANGED <<root_, rootPtr, shellVars>>

\* completer(allTokens, paramIndex, input), for one of the given token lists,
\* indexes and inputs
CallCompleter(tokenLists, indexes, inputs) ==
    /\ rootPtr.set
    /\ call.op = "none"
    /\ \E allTokens \in tokenLists, paramIndex \in indexes, input \in inputs :
          call' = [NoCall EXCEPT !.op = "complete", !.args = allTokens,
                                !.paramIndex = paramIndex, !.input = input,
                                !.matches = completer(rootPtr.node, allTokens,
                                                      paramIndex, input)]
    /\ UNCHANGED <<root_, rootPtr, shellVars>>

Next ==
    \/ \E c \in CandLists : DeclareRoot(c)
    \/ \E d \in NodeDecls : DeclareNode(d[1], d[2])
    \/ \E p \in NumericPaths, r \in Ranges : DeclareNumeric(p, r[1], r[2])
    \/ makeTreeParamMap
    \/ CallValidator(ArgLists)
    \/ CallCompleter(TokenLists, -1..MaxParamIndex, Inputs)

Spec == Init /\ [][Next]_vars

\* the numeric-format runs: trees with a numeric node at the root or under
\* "t", validated against tokens in every number format
NextNum ==
    \/ DeclareRoot(<<"t", "a">>)
    \/ \E p \in NumericPaths, r \in NumRanges : DeclareNumeric(p, r[1], r[2])
    \/ makeTreeParamMap
    \/ CallValidator(NumArgLists)

SpecNum == Init /\ [][NextNum]_vars

(***************************************************************************)
(* The state machine of the shell: commands are registered, CLI::run is    *)
(* called, and in the interactive loop each line read is parsed, looked    *)
(* up, validated and handed to a worker thread that invokeCommand watches  *)
(* while it polls the input channel.                                       *)
(*                                                                         *)
(* pc is where the thread that called run is:                              *)
(*   start     constructed, run not called yet                             *)
(*   loop      runInteractiveShell, at the test of while (running_)        *)
(*   readline  inside readline()                                           *)
(*   while     invokeCommand, at the test of while (!finished.load())      *)
(*   poll      inside poll()                                               *)
(*   read      poll reported input; about to read it                       *)
(*   join      at worker.join()                                            *)
(*   handler   runSingleCommand, inside the handler                        *)
(*   returned  run has returned 0                                          *)
(*   exited    std::_Exit(0) was called                                    *)
(*   escaped   an exception has left run                                   *)
(*   killed    a signal with the default disposition ended the process     *)
(* worker is where the worker thread is: none (no thread, or joined),      *)
(* handler (inside info.handler), finishing (handler left, finished not    *)
(* yet stored), exiting (finished stored), ended (thread function over).   *)
(*                                                                         *)
(* The statements a thread runs while no other thread exists are one       *)
(* step: a line is read, parsed, looked up and validated, and the flag is  *)
(* set and the worker constructed, in the step ReadLine; the join, the     *)
(* rethrow and the catch are the step JoinWorker.  The steps of the        *)
(* worker interleave freely with those of the poll loop, with the bytes    *)
(* arriving on the input and with signals.  readline is taken by what it   *)
(* returns (a line, or nullptr); poll by whether it reports input.  An     *)
(* exception is "std" when its type derives from std::exception and        *)
(* "other" when it does not.                                               *)
(***************************************************************************)
\* the byte invokeCommand looks for in what it reads
EOT == 4

\* sizeof(buffer) of the read in invokeCommand
BufferSize == 64

\* the bytes a user may type while a command runs: Ctrl+D or a letter
Bytes == {EOT, 120}

BuiltinHandlers == {"cmdHelp", "cmdExit", "cmdClear"}

\* how a call of a handler may end: the built-in handlers return; a
\* registered handler returns, throws a std::exception, or throws an object
\* of another type (or does not end at all: then no step is taken)
HandlerOutcomes(handler) ==
    IF handler \in BuiltinHandlers THEN {"return"}
    ELSE {"return", "throw_std", "throw_other"}

\* running_ after the handler: cmdExit clears it
RunningAfter(handler, flag) == IF handler = "cmdExit" THEN FALSE ELSE flag

\* what the exception_ptr of the worker holds after the handler ended
ExceptionOf(outcome) ==
    IF outcome = "throw_std" THEN "std"
    ELSE IF outcome = "throw_other" THEN "other"
    ELSE "none"

\* invokeCommand never asking the validator
ValidationError_NotAsked(info, toks) == ""

\* invokeCommand: the error of the validator, "" without a validator
ValidationError(info, toks) ==
    IF info.validator.set THEN validator(info.validator.node, toks) ELSE ""

\* the blank-line test of runInteractiveShell
RECURSIVE OnlySpaces(_)
OnlySpaces(line) ==
    IF Len(line) = 0 THEN TRUE
    ELSE Head(line) = " " /\ OnlySpaces(Tail(line))

\* the loop of invokeCommand going on whatever finished holds
LoopContinues_Always(fin) == TRUE

\* while (!finished.load())
LoopContinues(fin) == ~fin

\* poll reports POLLIN or POLLHUP: bytes are pending or the writing end is closed
InputReady(in) == in.pending # <<>> \/ in.closed

\* the cancel test seeing end-of-input only
IsCancel_EofOnly(n, buffer) == n = 0

\* n == 0, or buffer[i] == 0x04 for some i < n
IsCancel(n, buffer) == n = 0 \/ \E i \in 1..n : buffer[i] = EOT

\* join returning while the thread function is still running
JoinReturns_AtOnce(w) == TRUE

\* worker.join() returns once the thread function is over
JoinReturns(w) == w = "ended"

\* invokeCommand leaving commandRunning_ as it is after the join
FlagAfterJoin_Kept(flag) == flag

\* commandRunning_.store(false) after the join
FlagAfterJoin(flag) == FALSE

\* catch (const std::exception&)
CatchesException(exception) == exception = "std"

\* a signal left at its default disposition
SignalDisposition_Default(sig) == "default"

\* the disposition CLI::CLI() gives SIGINT, SIGQUIT and SIGTSTP
SignalDisposition(sig) == "signalHandler"

\* isCommandRunning with instance_ never set
isCommandRunning_NoInstance(flag) == FALSE

\* CLI::isCommandRunning: instance_ is set by CLI::CLI()
isCommandRunning(flag) == flag

\* the thread that called run has left it, or the process is gone
Terminated == {"returned", "exited", "escaped", "killed"}

\* invokeCommand is between the start of the worker and its end
Supervising == {"while", "poll", "read", "join"}

\* runSingleCommand watching the input as executeCommand does
MonitorCtrlD_Always(m) == TRUE

\* the monitorCtrlD argument: true from executeCommand, false from
\* runSingleCommand
MonitorCtrlD(m) == m = "interactive"

\* where the thread that called run goes when an invocation is over
Resume(m) == IF m = "interactive" THEN "loop" ELSE "returned"

\* run returns 0 once runSingleCommand has returned
Leaving(m, st) == IF m = "single" THEN [st EXCEPT !.exitCode = 0] ELSE st

\* the signals CLI::CLI() installs signalHandler for
Signals == {"SIGINT", "SIGQUIT", "SIGTSTP"}

\* the tree of the command the shell runs register:
\*   root({"a", "t"}), numeric({"t"}, 1, 600)
ShellTree == BuilderNumeric(BuilderRoot(EmptyNode, <<"a", "t">>), <<"t">>, 1, 600)

\* the registerCommand calls made before run: a command with a validator and
\* a completer, the same name again without them, and a built-in name
\* registered anew
RegChoices ==
    { [name |-> "set", description |-> "d1", handler |-> "h1",
       completer |-> FunctionOver(ShellTree), validator |-> FunctionOver(ShellTree)],
      [name |-> "set", description |-> "d2", handler |-> "h2",
       completer |-> NoFunction, validator |-> NoFunction],
      [name |-> "exit", description |-> "d2", handler |-> "h2",
       completer |-> NoFunction, validator |-> NoFunction] }

\* the lines readline returns
Lines ==
    {"", "  ", "\t", "set a", " set  t 5 ", "set x", "set t 700", "set",
     "nope", "se", "exit", "help"}

\* argv[1..] of a single-shot run
SingleArgs ==
    {<<"set", "a">>, <<"set", "t", "5">>, <<"set", "x">>, <<"set">>,
     <<"nope">>, <<"exit">>, <<"help">>, <<"">>, <<"set a">>}

\* the tree of the completion runs:
\*   root({"mode", "move", "max", "t"}), node({"mode"}, {"fast", "far", "fa"}),
\*   node({"move"}, {"up", "down"}), node({"t"}, {"on"})
CompTree ==
    BuilderNode(
        BuilderNode(
            BuilderNode(BuilderRoot(EmptyNode, <<"mode", "move", "max", "t">>),
                        <<"mode">>, <<"fast", "far", "fa">>),
            <<"move">>, <<"up", "down">>),
        <<"t">>, <<"on">>)

CompRegs ==
    { [name |-> "set", description |-> "d1", handler |-> "h1",
       completer |-> FunctionOver(CompTree), validator |-> FunctionOver(CompTree)],
      [name |-> "set", description |-> "d2", handler |-> "h2",
       completer |-> FunctionOver(ShellTree), validator |-> NoFunction],
      [name |-> "go", description |-> "d1", handler |-> "h1",
       completer |-> NoFunction, validator |-> NoFunction] }

\* the lines in rl_line_buffer when completion is asked for
CompLines ==
    {"", "se", "set ", "set m", "set mo", "set mod", "set ma", "set x", "set a",
     "set mode ", "set mode f", "set mode fa", "set mode fas", "set move ",
     "set t ", "set  m", " set m", "go ", "nope m", "set mode x"}

\* what readline hands to commandCompletion: the word [start, end) the cursor
\* is at the end of; the word holds no white space and starts the line or
\* follows white space
CompletionCalls ==
    UNION { { [line |-> l, start |-> a, end |-> e] :
                a \in {x \in 0..Len(l) :
                         x = 0 \/ isspace(SubSeq(l, x, x))},
                e \in 0..Len(l) } : l \in CompLines }

WellFormedCalls ==
    {c \in CompletionCalls :
        /\ c.start <= c.end
        /\ \A k \in (c.start + 1)..c.end : ~isspace(SubSeq(c.line, k, k))}

RegisterCommand(choices) ==
    /\ pc = "start"
    /\ Len(regLog) < Len(BuiltinCalls) + MaxRegs
    /\ \E c \in choices :
          /\ commands_' = registerCommand(commands_, c.name, c.description, c.handler,
                                          c.completer, c.validator)
          /\ regLog' = Append(regLog, c)
    /\ UNCHANGED <<treeVars, running_, commandRunning_, pc, mode, tokens, finished,
                   workerException, worker, stdin, completion, stat>>

\* the part of executeCommand / runSingleCommand and invokeCommand that runs
\* before a handler does, for the command line toks in mode m.  With
\* monitorCtrlD it ends after commandRunning_.store(true), with the
\* std::thread not yet constructed.
Dispatch(toks, m) ==
    /\ tokens' = toks
    /\ mode' = m
    /\ IF toks = <<>>
       THEN /\ pc' = Resume(m)
            /\ stat' = Leaving(m, NoStat)
            /\ UNCHANGED <<commandRunning_, finished, workerException, worker>>
       ELSE IF toks[1] \notin DOMAIN commands_
       THEN /\ pc' = Resume(m)
            /\ stat' = Leaving(m, [NoStat EXCEPT !.unknown = TRUE])
            /\ UNCHANGED <<commandRunning_, finished, workerException, worker>>
       ELSE LET info  == commands_[toks[1]]
                error == ValidationError(info, toks)
                st    == [NoStat EXCEPT !.validated = IF info.validator.set THEN 1 ELSE 0]
            IN  IF error # ""
                THEN /\ pc' = Resume(m)
                     /\ stat' = Leaving(m, [st EXCEPT !.error = error])
                     /\ UNCHANGED <<commandRunning_, finished, workerException, worker>>
                ELSE IF ~MonitorCtrlD(m)
                THEN /\ pc' = "handler"
                     /\ stat' = [st EXCEPT !.handlerCalls = 1, !.invoked = info.handler]
                     /\ UNCHANGED <<commandRunning_, finished, workerException, worker>>
                ELSE /\ pc' = "thread"
                     /\ commandRunning_' = TRUE
                     /\ finished' = FALSE
                     /\ workerException' = "none"
                     /\ stat' = st
                     /\ UNCHANGED worker

\* std::thread worker(...): the thread is created, its function not yet at
\* the call of the handler, or the constructor throws std::system_error,
\* which the catch of invokeCommand reports after clearing commandRunning_.
\* worker = "handler" is the thread function up to the end of the handler;
\* stat.handlerCalls tells whether it has called the handler yet.
StartWorker ==
    /\ pc = "thread"
    /\ \E threadStarts \in BOOLEAN :
          IF threadStarts
          THEN /\ pc' = "while"
               /\ worker' = "handler"
               /\ stat' = [stat EXCEPT !.workers = 1]
               /\ UNCHANGED commandRunning_
          ELSE /\ pc' = Resume(mode)
               /\ commandRunning_' = FALSE
               /\ stat' = [stat EXCEPT !.error = "Error: thread"]
               /\ UNCHANGED worker
    /\ UNCHANGED <<treeVars, commands_, running_, mode, tokens, finished,
                   workerException, stdin, completion, regLog>>

\* CLI::run with argc <= 1
RunInteractive ==
    /\ pc = "start"
    /\ pc' = "loop"
    /\ mode' = "interactive"
    /\ UNCHANGED <<treeVars, commands_, running_, commandRunning_, tokens, finished,
                   workerException, worker, stdin, completion, regLog, stat>>

\* CLI::run with argc > 1, up to the call of the handler
RunSingle(argLists) ==
    /\ pc = "start"
    /\ \E args \in argLists : Dispatch(args, "single")
    /\ UNCHANGED <<treeVars, commands_, running_, stdin, completion, regLog>>

\* runSingleCommand: the handler, called on the thread that called run, ends
SyncHandlerEnds ==
    /\ pc = "handler"
    /\ LET handler == commands_[tokens[1]].handler
       IN  \E outcome \in HandlerOutcomes(handler) :
              /\ running_' = RunningAfter(handler, running_)
              /\ IF outcome = "return"
                 THEN /\ pc' = "returned"
                      /\ stat' = [stat EXCEPT !.outcomes = Append(@, "Completed"),
                                              !.exitCode = 0]
                      /\ UNCHANGED commandRunning_
                 ELSE IF CatchesException(ExceptionOf(outcome))
                 THEN /\ pc' = "returned"
                      /\ commandRunning_' = FALSE
                      /\ stat' = [stat EXCEPT !.outcomes = Append(@, "HandlerFailed"),
                                              !.error = "Error: what",
                                              !.exitCode = 0]
                 ELSE /\ pc' = "escaped"
                      /\ stat' = [stat EXCEPT !.outcomes = Append(@, "HandlerFailed")]
                      /\ UNCHANGED commandRunning_
    /\ UNCHANGED <<treeVars, commands_, mode, tokens, finished, workerException,
                   worker, stdin, completion, regLog>>

\* runInteractiveShell: while (running_)
LoopTest ==
    /\ pc = "loop"
    /\ IF running_
       THEN pc' = "readline" /\ UNCHANGED stat
       ELSE pc' = "returned" /\ stat' = [stat EXCEPT !.exitCode = 0]
    /\ UNCHANGED <<treeVars, commands_, running_, commandRunning_, mode, tokens,
                   finished, workerException, worker, stdin, completion, regLog>>

\* the start of the line readline makes of the bytes it finds unread in
\* the input: every byte but 0x04 (which, on a line that is not empty,
\* deletes nothing at the end of the line) is a character of the line; end
\* of file ends such a line as a newline would
RECURSIVE PendingLine(_)
PendingLine(pending) ==
    IF pending = <<>> THEN ""
    ELSE IF Head(pending) = EOT THEN PendingLine(Tail(pending))
    ELSE "x" \o PendingLine(Tail(pending))

\* the lines readline can return: the bytes left unread in the input,
\* followed, while the input is open, by what the user types
ReadableLines(lines, in) ==
    IF in.closed THEN {PendingLine(in.pending)}
    ELSE {PendingLine(in.pending) \o typed : typed \in lines}

\* readline returns nullptr: on an empty line it read 0x04 (the first byte
\* left unread, or typed at the prompt) or end of file; run returns 0.
\* readline reads byte by byte, so what follows the 0x04 stays unread.
ReadLineEof ==
    /\ pc = "readline"
    /\ IF stdin.pending = <<>> THEN TRUE ELSE Head(stdin.pending) = EOT
    /\ pc' = "returned"
    /\ tokens' = <<>>
    /\ stat' = [NoStat EXCEPT !.exitCode = 0]
    /\ stdin' = [stdin EXCEPT !.pending = IF @ = <<>> THEN <<>> ELSE Tail(@)]
    /\ UNCHANGED <<treeVars, commands_, running_, commandRunning_, mode,
                   finished, workerException, worker, completion, regLog>>

\* readline returns a line: the rest of the loop body up to the start of the
\* worker.  The line is what readline holds when Enter is typed: the bytes
\* it found unread in the input, unless a signal has made signalHandler
\* empty the line since, followed by what was typed after the prompt or
\* after the last such signal.
ReadLine(lines) ==
    /\ pc = "readline"
    /\ IF stdin.pending = <<>> THEN ~stdin.closed ELSE Head(stdin.pending) # EOT
    /\ \E line \in ReadableLines(lines, stdin) :
          IF OnlySpaces(line)
          THEN /\ pc' = "loop"
               /\ tokens' = <<>>
               /\ stat' = NoStat
               /\ UNCHANGED <<mode, commandRunning_, finished, workerException, worker>>
          ELSE Dispatch(parseCommandLine(line), "interactive")
    /\ stdin' = [stdin EXCEPT !.pending = <<>>]
    /\ UNCHANGED <<treeVars, commands_, running_, completion, regLog>>

\* the worker, once scheduled: info.handler(tokens) is called
WorkerCallsHandler ==
    /\ worker = "handler"
    /\ stat.handlerCalls = 0
    /\ pc \notin Terminated
    /\ stat' = [stat EXCEPT !.handlerCalls = 1,
                            !.invoked = commands_[tokens[1]].handler]
    /\ UNCHANGED <<treeVars, commands_, running_, commandRunning_, pc, mode, tokens,
                   finished, workerException, worker, stdin, completion, regLog>>

\* the handler ends on the worker thread
HandlerEnds ==
    /\ worker = "handler"
    /\ stat.handlerCalls = 1
    /\ pc \notin Terminated
    /\ LET handler == commands_[tokens[1]].handler
       IN  \E outcome \in HandlerOutcomes(handler) :
              /\ running_' = RunningAfter(handler, running_)
              /\ workerException' = ExceptionOf(outcome)
    /\ worker' = "finishing"
    /\ UNCHANGED <<treeVars, commands_, commandRunning_, pc, mode, tokens, finished,
                   stdin, completion, regLog, stat>>

\* the worker: finished.store(true)
WorkerFinishes ==
    /\ worker = "finishing"
    /\ pc \notin Terminated
    /\ finished' = TRUE
    /\ worker' = "exiting"
    /\ stat' = [stat EXCEPT !.finishedFirst = ~stat.cancelArrived]
    /\ UNCHANGED <<treeVars, commands_, running_, commandRunning_, pc, mode, tokens,
                   workerException, stdin, completion, regLog>>

\* the thread function of the worker is over
WorkerExits ==
    /\ worker = "exiting"
    /\ pc \notin Terminated
    /\ worker' = "ended"
    /\ UNCHANGED <<treeVars, commands_, running_, commandRunning_, pc, mode, tokens,
                   finished, workerException, stdin, completion, regLog, stat>>

\* invokeCommand: the test of the while loop
WhileTest ==
    /\ pc = "while"
    /\ IF LoopContinues(finished)
       THEN pc' = "poll" /\ UNCHANGED stat
       ELSE pc' = "join" /\ stat' = [stat EXCEPT !.sawFinished = TRUE]
    /\ UNCHANGED <<treeVars, commands_, running_, commandRunning_, mode, tokens,
                   finished, workerException, worker, stdin, completion, regLog>>

\* poll returns 0 after its timeout: nothing to read
PollTimeout ==
    /\ pc = "poll"
    /\ ~InputReady(stdin)
    /\ pc' = "while"
    /\ UNCHANGED <<treeVars, commands_, running_, commandRunning_, mode, tokens,
                   finished, workerException, worker, stdin, completion, regLog, stat>>

\* poll returns 1 with POLLIN or POLLHUP
PollReady ==
    /\ pc = "poll"
    /\ InputReady(stdin)
    /\ pc' = "read"
    /\ UNCHANGED <<treeVars, commands_, running_, commandRunning_, mode, tokens,
                   finished, workerException, worker, stdin, completion, regLog, stat>>

\* read, and the scan of what was read
Read ==
    /\ pc = "read"
    /\ LET n      == IF Len(stdin.pending) < BufferSize THEN Len(stdin.pending)
                     ELSE BufferSize
           buffer == SubSeq(stdin.pending, 1, n)
       IN  /\ stdin' = [stdin EXCEPT !.pending = SubSeq(@, n + 1, Len(@))]
           /\ IF IsCancel(n, buffer)
              THEN /\ pc' = "exited"
                   /\ stat' = [stat EXCEPT !.cancelRead = TRUE,
                                           !.outcomes = Append(@, "UserCancelled"),
                                           !.exitCode = 0]
              ELSE /\ pc' = "while"
                   /\ UNCHANGED stat
    /\ UNCHANGED <<treeVars, commands_, running_, commandRunning_, mode, tokens,
                   finished, workerException, worker, completion, regLog>>

\* worker.join() returns; the rest of invokeCommand
JoinWorker ==
    /\ pc = "join"
    /\ JoinReturns(worker)
    /\ worker' = IF worker = "ended" THEN "none" ELSE worker
    /\ IF workerException = "none"
       THEN /\ commandRunning_' = FlagAfterJoin(commandRunning_)
            /\ pc' = "loop"
            /\ stat' = [stat EXCEPT !.outcomes = Append(@, "Completed")]
       ELSE IF CatchesException(workerException)
       THEN /\ commandRunning_' = FALSE
            /\ pc' = "loop"
            /\ stat' = [stat EXCEPT !.outcomes = Append(@, "HandlerFailed"),
                                    !.error = "Error: what"]
       ELSE /\ commandRunning_' = FlagAfterJoin(commandRunning_)
            /\ pc' = "escaped"
            /\ stat' = [stat EXCEPT !.outcomes = Append(@, "HandlerFailed")]
    /\ UNCHANGED <<treeVars, commands_, running_, mode, tokens, finished,
                   workerException, stdin, completion, regLog>>

\* a byte is typed while a command runs
TypeByte ==
    /\ pc \in Supervising
    /\ ~stdin.closed
    /\ Len(stdin.pending) < MaxPending
    /\ \E b \in Bytes :
          /\ stdin' = [stdin EXCEPT !.pending = Append(@, b)]
          /\ stat' = [stat EXCEPT !.cancelArrived = @ \/ b = EOT]
    /\ UNCHANGED <<treeVars, commands_, running_, commandRunning_, pc, mode, tokens,
                   finished, workerException, worker, completion, regLog>>

\* the writing end of the input is closed while a command runs
CloseInput ==
    /\ pc \in Supervising
    /\ ~stdin.closed
    /\ stdin' = [stdin EXCEPT !.closed = TRUE]
    /\ stat' = [stat EXCEPT !.cancelArrived = TRUE]
    /\ UNCHANGED <<treeVars, commands_, running_, commandRunning_, pc, mode, tokens,
                   finished, workerException, worker, completion, regLog>>

\* what is left unread of the input when signalHandler empties the line
\* of a readline call under way: readline reads the input byte by byte, so
\* the signal finds it having taken none, some or all of the bytes; it has
\* taken none if the first is 0x04, on which it returns at once
UnreadAfterClear(pending) ==
    {SubSeq(pending, k + 1, Len(pending)) :
        k \in {n \in 0..Len(pending) : n > 0 => Head(pending) # EOT}}

\* SIGINT, SIGQUIT or SIGTSTP is delivered to the thread that called run.
\* A poll under way returns -1.  signalHandler returns at once while
\* isCommandRunning(); otherwise it prints the hint and, by rl_on_new_line,
\* rl_replace_line("", 0) and rl_redisplay, empties the line readline is
\* assembling.
Signal ==
    /\ pc \notin Terminated
    /\ \E sig \in Signals :
          IF SignalDisposition(sig) # "signalHandler"
          THEN /\ pc' = "killed"
               /\ UNCHANGED stdin
               /\ stat' = [stat EXCEPT !.interrupted = @ \/ commandRunning_]
          ELSE IF isCommandRunning(commandRunning_)
          THEN /\ pc' = IF pc = "poll" THEN "while" ELSE pc
               /\ UNCHANGED stdin
               /\ stat' = [stat EXCEPT !.interrupted = @ \/ commandRunning_]
          ELSE /\ pc' = IF pc = "poll" THEN "while" ELSE pc
               /\ stat' = [stat EXCEPT !.interrupted = @ \/ commandRunning_,
                                       !.hinted = TRUE]
               /\ IF pc = "readline"
                  THEN \E rest \in UnreadAfterClear(stdin.pending) :
                          stdin' = [stdin EXCEPT !.pending = rest]
                  ELSE UNCHANGED stdin
    /\ UNCHANGED <<treeVars, commands_, running_, commandRunning_, mode, tokens,
                   finished, workerException, worker, completion, regLog>>

\* readline calls commandCompletion for the word [start, end) of its line
CommandCompletion(calls) ==
    /\ pc = "readline"
    /\ \E c \in calls :
          completion' = commandCompletion(commands_, c.line,
                                          SubSeq(c.line, c.start + 1, c.end), c.start)
    /\ UNCHANGED <<treeVars, commands_, running_, commandRunning_, pc, mode, tokens,
                   finished, workerException, worker, stdin, regLog, stat>>

NextShell ==
    \/ RegisterCommand(RegChoices)
    \/ RunInteractive
    \/ RunSingle(SingleArgs)
    \/ SyncHandlerEnds
    \/ LoopTest
    \/ ReadLineEof
    \/ ReadLine(Lines)
    \/ StartWorker
    \/ WorkerCallsHandler
    \/ HandlerEnds
    \/ WorkerFinishes
    \/ WorkerExits
    \/ WhileTest
    \/ PollTimeout
    \/ PollReady
    \/ Read
    \/ JoinWorker
    \/ TypeByte
    \/ CloseInput
    \/ Signal

SpecShell == Init /\ [][NextShell]_vars

(***************************************************************************)
(* The interactive shell under fair scheduling.  Both threads are          *)
(* scheduled by the operating system, so a step of the worker after its    *)
(* handler ended, and a step of the thread that called run, is taken once  *)
(* it stays possible: poll returns after 100 ms at the latest, read is     *)
(* called only when poll reported input, and join returns once the thread  *)
(* function is over.  That the handler ends, that readline returns, that   *)
(* bytes or signals arrive is not assumed.                                 *)
(***************************************************************************)
\* a command without a validator
FairRegs ==
    { [name |-> "set", description |-> "d2", handler |-> "h2",
       completer |-> NoFunction, validator |-> NoFunction] }

FairLines == {"", "set a", "nope", "exit"}

NextFair ==
    \/ RegisterCommand(FairRegs)
    \/ RunInteractive
    \/ LoopTest
    \/ ReadLineEof
    \/ ReadLine(FairLines)
    \/ StartWorker
    \/ WorkerCallsHandler
    \/ HandlerEnds
    \/ WorkerFinishes
    \/ WorkerExits
    \/ WhileTest
    \/ PollTimeout
    \/ PollReady
    \/ Read
    \/ JoinWorker
    \/ TypeByte
    \/ CloseInput
    \/ Signal

Fairness ==
    /\ WF_vars(StartWorker)
    /\ WF_vars(WorkerCallsHandler)
    /\ WF_vars(WorkerFinishes)
    /\ WF_vars(WorkerExits)
    /\ WF_vars(WhileTest)
    /\ WF_vars(PollTimeout)
    /\ WF_vars(PollReady)
    /\ WF_vars(Read)
    /\ WF_vars(JoinWorker)

SpecShellFair == Init /\ [][NextFair]_vars /\ Fairness

NextComp ==
    \/ RegisterCommand(CompRegs)
    \/ RunInteractive
    \/ LoopTest
    \/ CommandCompletion(WellFormedCalls)

SpecComp == Init /\ [][NextComp]_vars

(***************************************************************************)
(* The declared tree used by a command: the builder's calls, then          *)
(* makeTreeParamMap, then registerCommand with the completer and the       *)
(* validator of the map, then run with a command line in argv.             *)
(***************************************************************************)
\* registerCommand("set", ..., map.completer, map.validator)
TreeRegs ==
    { [name |-> "set", description |-> "d1", handler |-> "h1",
       completer |-> FunctionOver(rootPtr.node),
       validator |-> FunctionOver(rootPtr.node)] }

RegisterTreeCommand ==
    /\ rootPtr.set
    /\ RegisterCommand(TreeRegs)

\* argv[1..] of a single-shot run
TreeArgs == ArgLists \ {<<>>}

NextTree ==
    \/ \E c \in CandLists : DeclareRoot(c)
    \/ \E d \in NodeDecls : DeclareNode(d[1], d[2])
    \/ \E p \in NumericPaths, r \in Ranges : DeclareNumeric(p, r[1], r[2])
    \/ makeTreeParamMap
    \/ RegisterTreeCommand
    \/ RunSingle(TreeArgs)
    \/ SyncHandlerEnds

SpecTree == Init /\ [][NextTree]_vars

(***************************************************************************)
(* Vocabulary of the properties.  These definitions describe the declared  *)
(* tree and the expected texts on their own, without the validator's or    *)
(* the completer's operators.                                              *)
(***************************************************************************)
Validated == call.op = "validate"
Completed == call.op = "complete"

\* the C++ index of the last argument of the validated list
LastIndex == Len(call.args) - 1

\* the node reached from n through the children named by keys, if declared
RECURSIVE Declared(_, _)
Declared(n, keys) ==
    IF keys = <<>> THEN TRUE
    ELSE Head(keys) \in DOMAIN n.children /\ Declared(n.children[Head(keys)], Tail(keys))

RECURSIVE Follow(_, _)
Follow(n, keys) ==
    IF keys = <<>> THEN n ELSE Follow(n.children[Head(keys)], Tail(keys))

\* args[1..i-1] of a list
PathBefore(list, i) == SubSeq(list, 2, i)

IsEnumerated(n) == Len(n.candidates) > 0
IsNumeric(n) == Len(n.candidates) = 0 /\ n.numeric.enabled

IsCandidate(n, v) == v \in {n.candidates[k] : k \in 1..Len(n.candidates)}
IsLeafValue(n, v) == IsCandidate(n, v) /\ v \notin DOMAIN n.children

\* the strings of a list separated by ", "
RECURSIVE CommaList(_)
CommaList(list) ==
    IF Len(list) = 0 THEN ""
    ELSE IF Len(list) = 1 THEN list[1]
    ELSE list[1] \o ", " \o CommaList(Tail(list))

\* sub occurs in s
Contains(s, sub) ==
    \E k \in 0..(Len(s) - Len(sub)) : SubSeq(s, k + 1, k + Len(sub)) = sub

\* p is a leading part of s
IsPrefix(p, s) ==
    /\ Len(p) <= Len(s)
    /\ \A k \in 1..Len(p) : SubSeq(s, k, k) = SubSeq(p, k, k)

\* the validator's scan is at the top of its loop for index i: no earlier
\* iteration returned or left the loop
Reaches(i) ==
    /\ Validated
    /\ i \in 1..LastIndex
    /\ LET st == ScanLoop(ScanStart(rootPtr.node), call.args, 1, i)
       IN  ~st.returned /\ ~st.broke

\* the node the scan checks args[i] against
NodeFor(i) == ScanLoop(ScanStart(rootPtr.node), call.args, 1, i).current

(***************************************************************************)
(* C1                                                                      *)
(***************************************************************************)
\* args[1..n] retrace a declared enumerated path and stop on a leaf value
RetracesToLeaf(tree, args) ==
    /\ Len(args) >= 2
    /\ \A i \in 1..(Len(args) - 1) :
          /\ Declared(tree, PathBefore(args, i))
          /\ IsCandidate(Follow(tree, PathBefore(args, i)), Arg(args, i))
          /\ i < Len(args) - 1 =>
                Arg(args, i) \in DOMAIN Follow(tree, PathBefore(args, i)).children
    /\ IsLeafValue(Follow(tree, PathBefore(args, Len(args) - 1)), Arg(args, Len(args) - 1))

\* C1: an argument list that retraces a declared enumerated path and ends on
\* a declared leaf value is validated with the empty string.
C1_PathToLeafAccepted ==
    (Validated /\ RetracesToLeaf(rootPtr.node, call.args)) => call.ret = ""

\* a three-level path to a leaf was validated
C1_Witness ==
    /\ Validated
    /\ RetracesToLeaf(rootPtr.node, call.args)
    /\ Len(call.args) = 4
    /\ call.ret = ""

(***************************************************************************)
(* C2                                                                      *)
(***************************************************************************)
InvalidValueText(n, v, i) ==
    "Invalid value '" \o v \o "' at position " \o ToString(i)
        \o ". Valid values: " \o CommaList(n.candidates)

\* args[i] is checked against an enumerated node and is none of its candidates
RejectedValueAt(i) ==
    /\ Reaches(i)
    /\ IsEnumerated(NodeFor(i))
    /\ ~IsCandidate(NodeFor(i), Arg(call.args, i))

\* C2: a value that is no candidate of the enumerated node the scan is at
\* gives exactly the Invalid value text with its position and the candidates
\* in declaration order; the text is that of the list cut after args[i], so
\* no later argument takes part in it.
C2_InvalidValueMessage ==
    \A i \in 1..LastIndex :
        RejectedValueAt(i) =>
            /\ call.ret = InvalidValueText(NodeFor(i), Arg(call.args, i), i)
            /\ call.ret = validator(rootPtr.node, SubSeq(call.args, 1, i + 1))

\* a value at position 2 was rejected against candidates declared out of key
\* order, with an argument after it
C2_Witness ==
    /\ RejectedValueAt(2)
    /\ LastIndex = 3
    /\ call.ret = "Invalid value '700' at position 2. Valid values: t, ab, a"

(***************************************************************************)
(* C5                                                                      *)
(***************************************************************************)
\* args[i] is checked against an enumerated node and is a leaf value of it
EnumLeafAt(i) ==
    /\ Reaches(i)
    /\ IsEnumerated(NodeFor(i))
    /\ IsLeafValue(NodeFor(i), Arg(call.args, i))

\* C5: a leaf value of an enumerated node followed by another argument gives
\* the Too many arguments text naming it; as the last argument it gives the
\* empty string.  So no accepted list continues past an enumerated leaf value.
C5_EnumLeafEndsList ==
    \A i \in 1..LastIndex :
        EnumLeafAt(i) =>
            /\ i < LastIndex =>
                  call.ret = "Too many arguments after '" \o Arg(call.args, i) \o "'"
            /\ i = LastIndex => call.ret = ""
            /\ call.ret = "" => i = LastIndex

\* a leaf value at position 2 with an argument after it was refused
C5_Witness ==
    /\ EnumLeafAt(2)
    /\ LastIndex = 3
    /\ call.ret = "Too many arguments after 'b'"

(***************************************************************************)
(* C6                                                                      *)
(***************************************************************************)
\* args[i] is checked against a node without candidates, passes its numeric
\* check if it has one, and is no children key: a leaf
PlainLeafAt(i) ==
    /\ Reaches(i)
    /\ ~IsEnumerated(NodeFor(i))
    /\ Arg(call.args, i) \notin DOMAIN NodeFor(i).children
    /\ LET after == ScanLoop(ScanStart(rootPtr.node), call.args, 1, i + 1)
       IN  ~after.returned /\ after.lastValueIsLeaf

\* C6: after a leaf at a numeric or open node the scan stops: a list with
\* arguments after the leaf is not accepted as holding further values, and
\* no argument after the leaf is checked (no text is about a later position).
C6_PlainLeafStopsScan ==
    \A i \in 1..LastIndex :
        PlainLeafAt(i) =>
            /\ i < LastIndex => call.ret # ""
            /\ \A j \in (i + 1)..LastIndex :
                  ~Contains(call.ret, "at position " \o ToString(j))

(***************************************************************************)
(* C7                                                                      *)
(***************************************************************************)
\* every argument was consumed and the last one was no leaf
ConsumedWithoutLeaf ==
    /\ Validated
    /\ Len(call.args) >= 2
    /\ LET st == ScanLoop(ScanStart(rootPtr.node), call.args, 1, Len(call.args))
       IN  ~st.returned /\ ~st.broke /\ ~st.lastValueIsLeaf

NodeAtEnd == ScanLoop(ScanStart(rootPtr.node), call.args, 1, Len(call.args)).current

\* C7: fewer than two tokens give Missing arguments.  When every argument
\* was consumed without ending on a leaf, the node reached decides: its
\* candidates if it has any, else its child keys (in key order) if it has
\* any, else the empty string.
C7_MissingArgument ==
    /\ (Validated /\ Len(call.args) < 2) => call.ret = "Missing arguments"
    /\ ConsumedWithoutLeaf =>
          call.ret =
             IF Len(NodeAtEnd.candidates) > 0
             THEN "Missing argument. Expected one of: " \o CommaList(NodeAtEnd.candidates)
             ELSE IF DOMAIN NodeAtEnd.children # {}
             THEN "Missing argument. Expected: "
                      \o CommaList(SortedKeys(DOMAIN NodeAtEnd.children))
             ELSE ""

\* the list ended at a node with child keys only, declared out of key order
C7_Witness ==
    /\ ConsumedWithoutLeaf
    /\ Len(NodeAtEnd.candidates) = 0
    /\ Cardinality(DOMAIN NodeAtEnd.children) = 2
    /\ call.ret = "Missing argument. Expected: a, b"

(***************************************************************************)
(* C8                                                                      *)
(***************************************************************************)
\* the validator returned from inside its loop while checking args[i]
ReturnedAt(i) ==
    /\ Reaches(i)
    /\ ScanLoop(ScanStart(rootPtr.node), call.args, 1, i + 1).returned

PositionText(i) == "at position " \o ToString(i)

\* C8 as stated: every text returned for a specific argument holds that
\* argument's position.
C8_EveryMessageHasPosition ==
    \A i \in 1..LastIndex :
        ReturnedAt(i) => Contains(call.ret, PositionText(i))

\* C8, amended: a text returned because args[i] failed the check of its node
\* (no candidate, no number, out of range) holds the position i; for an
\* enumerated node it lists every candidate, for a range it gives both ends.
\* The only other text returned for an argument is Too many arguments, which
\* quotes the leaf value and holds no position.
C8_FailedCheckHasPosition ==
    \A i \in 1..LastIndex :
        ReturnedAt(i) =>
            LET n == NodeFor(i)
                v == Arg(call.args, i)
            IN  IF IsEnumerated(n) /\ IsLeafValue(n, v)
                THEN /\ call.ret = "Too many arguments after '" \o v \o "'"
                     /\ ~Contains(call.ret, "position")
                ELSE /\ Contains(call.ret, PositionText(i))
                     /\ Contains(call.ret, "'" \o v \o "'")
                           \/ Contains(call.ret, "Number out of range")
                     /\ IsEnumerated(n) =>
                           Contains(call.ret, "Valid values: " \o CommaList(n.candidates))
                     /\ Contains(call.ret, "Number out of range") =>
                           Contains(call.ret, "Expected: " \o ToString(n.numeric.minValue)
                                                 \o " to " \o ToString(n.numeric.maxValue))

\* a number out of range at position 2 was reported with the range
C8_Witness ==
    /\ ReturnedAt(2)
    /\ IsNumeric(NodeFor(2))
    /\ call.ret = "Number out of range at position 2. Expected: 1 to 600"

(***************************************************************************)
(* C9                                                                      *)
(***************************************************************************)
\* the node the completer filters: reached through allTokens[1..paramIndex-1]
CompletionNodeDeclared ==
    /\ Completed
    /\ call.paramIndex >= 1
    /\ call.paramIndex = 1 \/ Len(call.args) >= call.paramIndex
    /\ Declared(rootPtr.node, PathBefore(call.args, call.paramIndex))

CompletionNode == Follow(rootPtr.node, PathBefore(call.args, call.paramIndex))

\* C9: the completer returns the candidates of the node reached through
\* allTokens[1..paramIndex-1] that begin with the input, each once, in
\* declaration order, and nothing else; for paramIndex < 1 it returns nothing.
C9_PrefixFiltered ==
    /\ (Completed /\ call.paramIndex < 1) => call.matches = <<>>
    /\ CompletionNodeDeclared =>
          call.matches =
             SelectSeq(CompletionNode.candidates, LAMBDA c : IsPrefix(call.input, c))
    /\ Completed => \A k \in 1..Len(call.matches) : IsPrefix(call.input, call.matches[k])

\* two of three candidates of a second-level node were returned, in
\* declaration order
C9_Witness ==
    /\ CompletionNodeDeclared
    /\ call.paramIndex = 2
    /\ call.input = "a"
    /\ CompletionNode.candidates = <<"t", "ab", "a">>
    /\ call.matches = <<"ab", "a">>

(***************************************************************************)
(* C10                                                                     *)
(***************************************************************************)
\* some allTokens[i], i < paramIndex, is no children key of the node reached
\* through the tokens before it
PathDiverges ==
    \E i \in 1..(call.paramIndex - 1) :
        /\ i < Len(call.args)
        /\ Declared(rootPtr.node, PathBefore(call.args, i))
        /\ Arg(call.args, i) \notin DOMAIN Follow(rootPtr.node, PathBefore(call.args, i)).children

\* C10 as stated: a diverging path, or fewer than paramIndex tokens, gives
\* the empty set.
C10_DivergentOrShortIsEmpty ==
    (Completed /\ (PathDiverges \/ Len(call.args) < call.paramIndex)) =>
        call.matches = <<>>

\* C10, amended: a diverging path, or fewer than paramIndex tokens when
\* paramIndex >= 2, gives the empty set.  (With paramIndex = 1 no token is
\* read: the root's candidates are filtered even for an empty token list.)
C10_DivergentIsEmpty ==
    (Completed /\ (PathDiverges
                   \/ (call.paramIndex >= 2 /\ Len(call.args) < call.paramIndex))) =>
        call.matches = <<>>

\* the path diverged at the first argument under a root that has candidates
\* the input is a prefix of
C10_Witness ==
    /\ Completed
    /\ PathDiverges
    /\ call.paramIndex = 3
    /\ Len(call.args) = 3
    /\ \E k \in 1..Len(rootPtr.node.candidates) :
          IsPrefix(call.input, rootPtr.node.candidates[k])
    /\ call.matches = <<>>

(***************************************************************************)
(* C3 and C4, properties of SpecNum                                        *)
(***************************************************************************)
Unsigned(tok) == IF Len(tok) > 0 /\ SubSeq(tok, 1, 1) \in {"+", "-"} THEN Tail(tok) ELSE tok

\* tok is entirely an optionally signed decimal integer
DenotesInteger(tok) ==
    /\ Len(Unsigned(tok)) > 0
    /\ \A k \in 1..Len(Unsigned(tok)) : SubSeq(Unsigned(tok), k, k) \in
          {"0", "1", "2", "3", "4", "5", "6", "7", "8", "9"}

\* the integer such a token denotes
TokenValue(tok) ==
    LET mag == StripZeros(Unsigned(tok))
    IN  [neg |-> SubSeq(tok, 1, 1) = "-" /\ mag # "0", mag |-> mag]

\* it is representable in the long of the build
FitsLong(tok) ==
    LET t == TokenValue(tok)
    IN  ~MagLess(IF t.neg THEN LongMinMag ELSE LongMaxMag, t.mag)

OutsideRange(tok, n) ==
    \/ LongLess(TokenValue(tok), LongOf(n.numeric.minValue))
    \/ LongLess(LongOf(n.numeric.maxValue), TokenValue(tok))

\* args[i] is checked against a numeric node
NumericAt(i) == Reaches(i) /\ IsNumeric(NodeFor(i))

RangeText(n) ==
    "Expected: " \o ToString(n.numeric.minValue) \o " to " \o ToString(n.numeric.maxValue)

InvalidNumberText(v, i) == "Invalid number '" \o v \o "' at position " \o ToString(i)

\* C3 as stated: every integer token outside the range of its numeric node,
\* of any digit count and sign format, gives an error naming the range.
C3_OutOfRangeNamesRange ==
    \A i \in 1..LastIndex :
        (NumericAt(i) /\ DenotesInteger(Arg(call.args, i))
                      /\ OutsideRange(Arg(call.args, i), NodeFor(i))) =>
            /\ call.ret # ""
            /\ Contains(call.ret, RangeText(NodeFor(i)))

\* C3, amended: every integer token outside the range of its numeric node
\* fails validation.  When the integer fits the long, whatever its digit
\* count and sign, the error is Number out of range with the position and
\* the range; when it does not fit, the error is Invalid number, which names
\* no range.
C3_OutOfRangeFails ==
    \A i \in 1..LastIndex :
        (NumericAt(i) /\ DenotesInteger(Arg(call.args, i))
                      /\ OutsideRange(Arg(call.args, i), NodeFor(i))) =>
            /\ call.ret # ""
            /\ FitsLong(Arg(call.args, i)) =>
                  call.ret = "Number out of range " \o PositionText(i) \o ". "
                                 \o RangeText(NodeFor(i))
            /\ ~FitsLong(Arg(call.args, i)) =>
                  call.ret = InvalidNumberText(Arg(call.args, i), i)

\* the largest long was refused at position 2 with the range -5 to 5
C3_Witness ==
    /\ NumericAt(2)
    /\ Arg(call.args, 1) = "t"
    /\ Arg(call.args, 2) = "9223372036854775807"
    /\ call.ret = "Number out of range at position 2. Expected: -5 to 5"

\* C4: at a numeric node the Invalid number error is returned for exactly the
\* tokens that are not entirely an optionally signed decimal integer (empty,
\* trailing characters, white space) or that do not fit the long.
C4_OnlyIntegersParse ==
    \A i \in 1..LastIndex :
        NumericAt(i) =>
            (call.ret = InvalidNumberText(Arg(call.args, i), i)
                <=> ~(DenotesInteger(Arg(call.args, i)) /\ FitsLong(Arg(call.args, i))))


(***************************************************************************)
(* The shell: vocabulary of the properties.                                *)
(***************************************************************************)
\* commandCompletion returned completions for an argument
ArgumentsCompleted == completion.kind = "arguments"

\* p is a prefix of every string of the list
PrefixOfAll(p, list) == \A k \in 1..Len(list) : IsPrefix(p, list[k])

(***************************************************************************)
(* C11.  For every non-empty candidate list the argument completer         *)
(* returns, the shared prefix commandCompletion computes is a prefix of    *)
(* every candidate, no longer string is a prefix of all of them, and for   *)
(* a single candidate it is that candidate.                                *)
(***************************************************************************)
C11_SharedPrefixIsLongest ==
    ArgumentsCompleted =>
        LET p    == completion.prefix
            list == completion.candidates
        IN  /\ list # <<>>
            /\ PrefixOfAll(p, list)
            /\ \A n \in (Len(p) + 1)..Len(list[1]) :
                  ~PrefixOfAll(SubSeq(list[1], 1, n), list)
            /\ Len(list) = 1 => p = list[1]

\* several candidates that share a proper, non-empty prefix
C11_Witness ==
    /\ ArgumentsCompleted
    /\ Len(completion.candidates) >= 3
    /\ completion.prefix # ""
    /\ \A k \in 1..2 : completion.prefix # completion.candidates[k]

\* the names registerCommand was called with
RegisteredNames == {regLog[i].name : i \in DOMAIN regLog}

\* the most recent registerCommand call for a name
LatestCall(name) ==
    regLog[CHOOSE i \in DOMAIN regLog :
              /\ regLog[i].name = name
              /\ \A j \in (i + 1)..Len(regLog) : regLog[j].name # name]

\* a command line is in hand: it was parsed and looked up
LineInHand == pc # "start" /\ tokens # <<>>

(***************************************************************************)
(* C12.  After any sequence of registerCommand calls, every registered     *)
(* name has exactly one entry, which carries the description, handler,     *)
(* completer and validator (absent ones included) of the most recent call  *)
(* for that name; the lookup of a command line is by equality with the     *)
(* name: a name never registered is not found, and a registered name runs  *)
(* the handler of its most recent registration.                            *)
(***************************************************************************)
C12_LastRegistrationWins ==
    /\ DOMAIN commands_ = RegisteredNames
    /\ \A n \in RegisteredNames :
          LET c == LatestCall(n)
          IN  commands_[n] = [description |-> c.description, handler |-> c.handler,
                              completer |-> c.completer, validator |-> c.validator]
    /\ LineInHand =>
          /\ stat.unknown <=> tokens[1] \notin RegisteredNames
          /\ stat.handlerCalls > 0 => stat.invoked = LatestCall(tokens[1]).handler

\* "set" was registered with a validator and then again without one, and
\* the line "set x", which that validator refuses, ran the second handler
C12_Witness ==
    /\ Len(regLog) = Len(BuiltinCalls) + 2
    /\ regLog[Len(regLog) - 1].name = "set" /\ regLog[Len(regLog) - 1].validator.set
    /\ regLog[Len(regLog)].name = "set" /\ ~regLog[Len(regLog)].validator.set
    /\ LineInHand
    /\ tokens = <<"set", "x">>
    /\ stat.invoked = "h2"

\* the command of the line in hand has a validator, and it refuses the line
ValidatorRefuses ==
    /\ LineInHand
    /\ tokens[1] \in DOMAIN commands_
    /\ commands_[tokens[1]].validator.set
    /\ validator(commands_[tokens[1]].validator.node, tokens) # ""

(***************************************************************************)
(* C13.  In both modes, when the validator of the command returns a        *)
(* non-empty error for the command line, the handler is not invoked for    *)
(* that line: no worker is started, the supervisor does not enter Running, *)
(* the error is what is reported, and the interactive loop goes on.        *)
(***************************************************************************)
C13_RefusedLineRunsNothing ==
    ValidatorRefuses =>
        /\ stat.handlerCalls = 0
        /\ stat.workers = 0
        /\ stat.outcomes = <<>>
        /\ worker = "none"
        /\ ~commandRunning_
        /\ pc \notin Supervising \cup {"handler", "thread"}
        /\ stat.error = validator(commands_[tokens[1]].validator.node, tokens)
        /\ mode = "interactive" => pc \in {"loop", "readline"}
        /\ mode = "single" => pc = "returned"

\* the line "set t 700" was refused and the loop is reading the next line
C13_Witness ==
    /\ ValidatorRefuses
    /\ mode = "interactive"
    /\ tokens = <<"set", "t", "700">>
    /\ stat.error = "Number out of range at position 2. Expected: 1 to 600"
    /\ pc = "readline"

\* readline returned nullptr and the loop was left by its break
EndOfInputSeen == pc = "returned" /\ tokens = <<>> /\ stat.exitCode = 0 /\ running_

\* the line in hand ended in an error: its command is unknown, its validator
\* refused it, or its handler threw
LineFailed ==
    /\ LineInHand
    /\ \/ stat.unknown
       \/ ValidatorRefuses
       \/ \E k \in DOMAIN stat.outcomes : stat.outcomes[k] = "HandlerFailed"

(***************************************************************************)
(* C14.  In the interactive loop every error of a command line (unknown    *)
(* command, validation error, any failure raised by the handler) stays     *)
(* within its loop iteration: the shell does not abort and goes on to read *)
(* the next line; the loop ends only when the running flag was cleared by  *)
(* the exit command, or end-of-input or the cancel signal was observed.    *)
(***************************************************************************)
C14_ErrorsContained ==
    mode = "interactive" =>
        /\ pc # "escaped"
        /\ LineFailed => pc \in {"loop", "readline"}
        /\ pc = "returned" => ~running_ \/ EndOfInputSeen
        /\ pc = "exited" => stat.cancelRead

\* what the read at pc = "read" returns holds end-of-input or the cancel
\* byte: nothing is pending (the input is closed), or one of the first
\* BufferSize pending bytes is 0x04
CancelPending ==
    \/ stdin.pending = <<>>
    \/ \E i \in DOMAIN stdin.pending : i <= BufferSize /\ stdin.pending[i] = EOT

(***************************************************************************)
(* C15.  While a command runs in interactive mode, a read of the           *)
(* supervisor that returns end-of-input, or a byte 0x04 among the bytes    *)
(* just read, ends the process at once with exit code 0, without joining   *)
(* the worker; the process is only ever ended by _Exit in this way, while  *)
(* the command is running and before the completion flag was seen true,    *)
(* whether or not the handler ever returns.                                *)
(***************************************************************************)
C15_CancelExitsAtOnce ==
    /\ [][(pc = "read" /\ pc' # "read" /\ CancelPending)
             => /\ pc' = "exited"
                /\ stat'.exitCode = 0
                /\ worker' = worker
                /\ commandRunning_' = commandRunning_]_vars
    /\ [](pc = "exited"
             => /\ mode = "interactive"
                /\ stat.exitCode = 0
                /\ stat.cancelRead
                /\ commandRunning_
                /\ worker # "none"
                /\ ~stat.sawFinished)

\* the cancel byte ended the process while the handler had not returned
C15_Witness ==
    /\ pc = "exited"
    /\ stat.exitCode = 0
    /\ worker = "handler"
    /\ stat.handlerCalls = 1
    /\ ~finished
    /\ ~stdin.closed

\* the invocation of the line in hand is over with one of the two outcomes
\* of a handler that ended
EndedByHandler ==
    /\ Len(stat.outcomes) = 1
    /\ stat.outcomes[1] \in {"Completed", "HandlerFailed"}

(***************************************************************************)
(* C16.  In every interleaving, when the handler sets the completion flag  *)
(* before any cancel signal arrives on the input channel, the supervisor   *)
(* joins the worker and the invocation ends Completed or Failed and        *)
(* resumes Idle: the process is not terminated by the cancel path.         *)
(***************************************************************************)
C16_FinishedFirstNeverCancelled ==
    stat.finishedFirst => pc # "exited"

(***************************************************************************)
(* What the code does guarantee.  Once the loop test of the supervisor     *)
(* finds the completion flag set, the supervisor polls and reads no more:  *)
(* it joins the worker, the invocation ends Completed or Failed with the   *)
(* command-running flag cleared, and the cancel path does not terminate    *)
(* the process, whatever arrives on the input channel from then on.  A     *)
(* cancel signal that arrives after the flag was set but before that loop  *)
(* test, while a poll is under way, still terminates the process.          *)
(***************************************************************************)
SeenFinishedIsJoined ==
    /\ [][(pc = "while" /\ finished /\ pc' # "while")
             => (pc' = "join" /\ stat'.sawFinished)]_vars
    /\ [](stat.sawFinished
             => /\ pc \notin {"while", "poll", "read", "exited"}
                /\ ~stat.cancelRead
                /\ pc # "join" => /\ worker = "none"
                                  /\ ~commandRunning_
                                  /\ EndedByHandler)

\* the cancel byte arrived after the loop test found the flag set: the
\* worker was joined and the command completed
SeenFinishedThenCancel ==
    /\ stat.sawFinished
    /\ stat.finishedFirst
    /\ stat.cancelArrived
    /\ stdin.pending # <<>>
    /\ pc = "loop"
    /\ stat.outcomes = <<"Completed">>

\* the handlers executing: on the worker thread, and on the thread that
\* called run
ExecutingHandlers ==
    (IF worker = "handler" THEN 1 ELSE 0) + (IF pc = "handler" THEN 1 ELSE 0)

(***************************************************************************)
(* C17.  At most one command handler is executing in every reachable       *)
(* state: no new line is read and no new worker is created until the       *)
(* worker of the previous invocation was joined or the process ended.      *)
(***************************************************************************)
C17_OneHandlerAtATime ==
    /\ ExecutingHandlers <= 1
    /\ stat.handlerCalls <= 1
    /\ stat.workers <= 1
    /\ pc \in {"start", "loop", "readline", "handler", "returned", "escaped"}
          => worker = "none"
    /\ worker # "none" => pc \in Supervising \cup {"exited"}

\* a worker ran a handler and was joined, and the next line is being read
C17_Witness ==
    /\ pc = "readline"
    /\ worker = "none"
    /\ stat.workers = 1
    /\ finished
    /\ EndedByHandler

(***************************************************************************)
(* C18.  In single-shot mode argv[1..] is taken as one command line, which *)
(* is looked up, validated and executed at most once; the handler runs     *)
(* on the calling thread: no worker is started, the input is neither       *)
(* polled nor read, the cancel path does not exist, and the process ends   *)
(* afterwards without entering the interactive loop.                       *)
(***************************************************************************)
C18_SingleShotIsSynchronous ==
    mode = "single" =>
        /\ tokens \in SingleArgs
        /\ stat.validated <= 1
        /\ stat.handlerCalls <= 1
        /\ stat.workers = 0
        /\ worker = "none"
        /\ ~commandRunning_
        /\ ~stat.cancelRead
        /\ stdin = NoInput
        /\ pc \in {"handler", "returned", "escaped"}
        /\ pc = "handler" => stat.handlerCalls = 1
        /\ pc = "returned" => stat.exitCode = 0

\* "set t 5" was validated and its handler ran to its end on the calling
\* thread; run has returned 0
C18_Witness ==
    /\ mode = "single"
    /\ tokens = <<"set", "t", "5">>
    /\ stat.validated = 1
    /\ stat.handlerCalls = 1
    /\ stat.outcomes = <<"Completed">>
    /\ pc = "returned"
    /\ stat.exitCode = 0

(***************************************************************************)
(* C19.  A SIGINT, SIGQUIT or SIGTSTP delivered while a command is running *)
(* never terminates the process and changes neither the state of the       *)
(* supervisor, nor the completion flag, nor the running flag: the handler  *)
(* prints nothing and leaves the input alone, and the thread that called   *)
(* run stays where it is, but for a poll under way, which returns to the   *)
(* loop test.  While a command is running only end-of-input or the cancel  *)
(* byte on the input channel terminates the process.                       *)
(***************************************************************************)
C19_SignalsIgnoredWhileRunning ==
    /\ [][(Signal /\ commandRunning_)
             => /\ pc' \notin Terminated
                /\ pc' = pc \/ (pc = "poll" /\ pc' = "while")
                /\ commandRunning_'
                /\ finished' = finished
                /\ running_' = running_
                /\ worker' = worker
                /\ workerException' = workerException
                /\ stdin' = stdin
                /\ ~stat'.hinted]_vars
    /\ [][(pc \notin Terminated /\ pc' \in Terminated /\ commandRunning_')
             => (pc = "read" /\ CancelPending /\ pc' = "exited")]_vars
    /\ [](commandRunning_ => ~stat.hinted)
    /\ [](pc # "killed")

\* a signal arrived while the command was running, and the command
\* completed and was joined as if it had not: no hint was printed
C19_Witness ==
    /\ stat.interrupted
    /\ ~stat.hinted
    /\ stat.outcomes = <<"Completed">>
    /\ pc = "loop"
    /\ ~commandRunning_
    /\ running_

\* the line in hand started a worker in interactive mode
WorkerStarted == mode = "interactive" /\ stat.workers = 1

\* the invocation of the line in hand has no outcome while invokeCommand
\* supervises the worker and exactly one afterwards; unless that is
\* UserCancelled the flag is clear and the worker joined
OneOutcomeThenIdle ==
    /\ WorkerStarted =>
          IF pc \in Supervising
          THEN stat.outcomes = <<>> /\ commandRunning_
          ELSE /\ Len(stat.outcomes) = 1
               /\ stat.outcomes[1] \in {"Completed", "HandlerFailed", "UserCancelled"}
               /\ stat.outcomes[1] = "UserCancelled" <=> pc = "exited"
               /\ stat.outcomes[1] # "UserCancelled"
                     => ~commandRunning_ /\ worker = "none"
    /\ ~WorkerStarted => \A k \in DOMAIN stat.outcomes : stat.outcomes[k] # "UserCancelled"

(***************************************************************************)
(* C20 as stated.  Every interactive invocation that starts a handler has  *)
(* exactly one outcome, Completed, HandlerFailed or UserCancelled; unless  *)
(* it is UserCancelled, the supervisor is Idle again (command-running flag *)
(* false, worker joined) when invokeCommand is left, on the success path   *)
(* and on every failure path; the command-running flag is true only        *)
(* between the start of the worker and that point.                         *)
(***************************************************************************)
C20_OneOutcomeThenIdle ==
    /\ OneOutcomeThenIdle
    /\ commandRunning_ => WorkerStarted /\ pc \in Supervising \cup {"exited"}

(***************************************************************************)
(* C20, amended.  Outcomes and the return to Idle as stated.  The          *)
(* command-running flag is true only from commandRunning_.store(true),     *)
(* the statement before the construction of the worker, to that point:     *)
(* while it is true either the worker has been started, or the thread      *)
(* that called run is about to construct it and no handler has been        *)
(* called.  When the worker cannot be constructed no handler is called,    *)
(* the invocation has no outcome and the flag is cleared before            *)
(* invokeCommand is left.                                                  *)
(***************************************************************************)
C20_OneOutcomeThenIdleFromStore ==
    /\ OneOutcomeThenIdle
    /\ commandRunning_ =>
          /\ mode = "interactive"
          /\ pc \in {"thread"} \cup Supervising \cup {"exited"}
          /\ pc = "thread" =>
                stat.workers = 0 /\ stat.handlerCalls = 0 /\ worker = "none"
          /\ pc # "thread" => WorkerStarted
    /\ stat.error = "Error: thread" =>
          /\ ~commandRunning_
          /\ stat.handlerCalls = 0
          /\ stat.outcomes = <<>>
          /\ worker = "none"
          /\ pc \in {"loop", "readline"}

\* the handler threw a std::exception: the worker was joined, the error was
\* reported and the flag is clear at the next loop test
C20_Witness ==
    /\ WorkerStarted
    /\ stat.outcomes = <<"HandlerFailed">>
    /\ stat.error = "Error: what"
    /\ pc = "loop"
    /\ ~commandRunning_
    /\ worker = "none"

\* the handler of the running command has returned or thrown
HandlerEnded == pc \in Supervising /\ worker \notin {"none", "handler"}

\* the thread that called run is back in the loop of runInteractiveShell,
\* about to prompt, with the worker joined
BackAtPrompt == pc = "loop" /\ worker = "none" /\ ~commandRunning_

(***************************************************************************)
(* C21.  Under fair scheduling, once the handler has returned or failed,   *)
(* the poll loop of the supervisor eventually observes the completion      *)
(* flag, joins the worker and returns to the prompt, unless end-of-input   *)
(* or the cancel byte is read; pending input that is no cancel and poll    *)
(* timeouts do not hold the loop up for ever.                              *)
(***************************************************************************)
C21_HandlerEndLeadsToPrompt ==
    HandlerEnded ~> (BackAtPrompt \/ stat.cancelRead)

(***************************************************************************)
(* What the code does guarantee.  Under fair scheduling, once the handler  *)
(* has returned or failed, the loop test eventually finds the completion   *)
(* flag set and the worker is joined with the command-running flag         *)
(* cleared, unless end-of-input or the cancel byte is read; the thread     *)
(* that called run is then at the prompt, or, after a failure that is no   *)
(* std::exception, has left run by that exception.  An iteration of the    *)
(* poll loop returns to the loop test only after the poll found nothing    *)
(* to read (its timeout, or a signal that interrupted it) or after the     *)
(* read took bytes off the input.                                          *)
(***************************************************************************)
HandlerEndLeadsToJoin ==
    /\ HandlerEnded ~>
          \/ stat.cancelRead
          \/ /\ stat.sawFinished
             /\ worker = "none"
             /\ ~commandRunning_
             /\ pc \in {"loop", "escaped"}
    /\ [][(pc = "poll" /\ pc' = "while") => (~InputReady(stdin) \/ Signal)]_vars
    /\ [][(pc = "read" /\ pc' = "while")
             => Len(stdin'.pending) < Len(stdin.pending)]_vars

(***************************************************************************)
(* The number of a numeric position left out.                              *)
(***************************************************************************)
\* every key of the list is a candidate of the node it is checked against
\* and names a child of that node
RECURSIVE KeysGiven(_, _)
KeysGiven(n, keys) ==
    IF keys = <<>> THEN TRUE
    ELSE /\ IsCandidate(n, Head(keys))
         /\ Head(keys) \in DOMAIN n.children
         /\ KeysGiven(n.children[Head(keys)], Tail(keys))

\* the arguments after the command name are the keys of a path that ends
\* at a numeric node without children, and nothing follows them
EndsAtNumericNode(tree, args) ==
    /\ Len(args) >= 1
    /\ KeysGiven(tree, Tail(args))
    /\ IsNumeric(Follow(tree, Tail(args)))
    /\ DOMAIN Follow(tree, Tail(args)).children = {}

\* the command of the line in hand has the validator of a tree in which
\* the line ends at a numeric node without children
NumberOmitted ==
    /\ LineInHand
    /\ tokens[1] \in DOMAIN commands_
    /\ commands_[tokens[1]].validator.set
    /\ EndsAtNumericNode(commands_[tokens[1]].validator.node, tokens)

\* the line in hand passed the validator and its handler was invoked: no
\* error is reported unless the handler itself failed
AcceptedAndInvoked ==
    /\ stat.validated = 1
    /\ stat.error # "" => stat.outcomes = <<"HandlerFailed">>
    /\ stat.handlerCalls = 1
    /\ stat.invoked = commands_[tokens[1]].handler
    /\ pc \in {"handler", "returned", "escaped"}

(***************************************************************************)
(* C22 as stated.  Every argument list that ends exactly at a numeric      *)
(* node without children, the number itself left out, is accepted: the     *)
(* validator returns the empty string and the handler is invoked, no       *)
(* number having been checked against the range.                           *)
(***************************************************************************)
C22_NumberOmittedAccepted ==
    NumberOmitted => AcceptedAndInvoked

(***************************************************************************)
(* C22, amended.  An argument list that gives at least one key after the   *)
(* command name and ends exactly at a numeric node without children is     *)
(* accepted: the validator returns the empty string and the handler is     *)
(* invoked, no number having been checked against the range.  When the     *)
(* numeric node is the root and the command name stands alone, the         *)
(* validator returns Missing arguments and the handler is not invoked.     *)
(***************************************************************************)
C22_KeyedNumberOmittedAccepted ==
    /\ (NumberOmitted /\ Len(tokens) >= 2) => AcceptedAndInvoked
    /\ (NumberOmitted /\ Len(tokens) < 2) =>
          /\ stat.error = "Missing arguments"
          /\ stat.handlerCalls = 0

\* "set t" was accepted by a validator whose node under "t" is numeric
\* with the range 1 to 600, and the handler returned
C22_Witness ==
    /\ NumberOmitted
    /\ tokens = <<"set", "t">>
    /\ commands_["set"].validator.node.children["t"].numeric.enabled
    /\ commands_["set"].validator.node.children["t"].numeric.minValue = 1
    /\ stat.error = ""
    /\ stat.outcomes = <<"Completed">>

====
